---- MODULE Spec2Model ----
(***************************************************************************)
(* SequentialTaskQueue (dist/lib/sequential-task-queue.js): a FIFO task    *)
(* queue that runs one task at a time.  Every public method, scheduler     *)
(* callback, timer callback and promise continuation runs to completion    *)
(* on the single JavaScript thread, so each is one atomic action.          *)
(***************************************************************************)
EXTENDS Integers, Sequences, FiniteSets, TLC

\* ---------------------------------------------------------------- bounds
MaxTasks == 2
MaxWaiters == 2

Tasks == 1..MaxTasks
Waiters == 1..MaxWaiters

\* `undefined` as a timeout
Undef == 0 - 1
\* a timeout in milliseconds that is neither absent nor zero
SomeMs == 1
TimeoutOptions == {Undef, 0, SomeMs}

\* cancellationTokenReasons, and a reason passed by user code
ReasonCancel == "cancel"
ReasonTimeout == "timeout"
ReasonUser == "user"
NoReason == "unset"

\* sequentialTaskQueueEvents
EvDrained == "drained"
EvError == "error"
EvTimeout == "timeout"
Events == {EvDrained, EvError, EvTimeout}

\* Event handlers of user code: one that returns and one that throws.  A
\* registration is the handler itself (once = 0) or the closure cb that
\* once() builds around it, which has an identity of its own (once > 0).
MaxHandlers == 2
Handlers == {"h", "hThrow"}
Registration(fn, once) == [fn |-> fn, once |-> once]
\* console.error, which emit calls when a handler threw
ConsoleError == Registration("console.error", 0)

\* options.args of push: absent, an array, or a single value that is not
\* an array.  The values are 0, which is falsy, and 1, which is truthy.
ArgValues == {0, 1}
NoArgs == [kind |-> "absent", val |-> <<>>]
ArgsOptions ==
    {NoArgs}
    \cup {[kind |-> "array", val |-> a] : a \in {<<>>, <<1>>, <<0, 1>>}}
    \cup {[kind |-> "value", val |-> <<x>>] : x \in ArgValues}
\* the cancellation token in an argument list
TokenArg == 0 - 2

\* What a task body does when it is invoked: what it calls synchronously
\* before it finishes (nothing, its own token's cancel, or queue.cancel()),
\* and how it finishes.  A thrown or rejection value is either falsy (0) or
\* truthy, for which the model uses the number of the task.
BodyPre == {"none", "token", "queue"}
BodyOut == {"return", "throw", "throwFalsy", "pending", "resolved",
            "rejected", "rejectedFalsy"}
SettleOut == {"resolved", "rejected", "rejectedFalsy"}
Falsy == 0

VARIABLES
    queue,          \* this.queue: sequence of taskEntry objects, head first
    currentTask,    \* this.currentTask: a taskEntry or NoTask
    isClosed,       \* this._isClosed
    waiters,        \* this.waiters: sequence of waiter callbacks
    defaultTimeout, \* this.defaultTimeout
    scheduled,      \* callbacks () => this.next() handed to the scheduler and not yet run
    tokens,         \* the cancellationToken of every task pushed so far
    timers,         \* tasks whose timeoutHandle is a live host timer
    promise,        \* the then-callbacks next() registered on a returned promise
    started,        \* task numbers in the order their bodies were invoked
    npushed,        \* number of task entries created so far
    swept,          \* tasks that were current or waiting at a cancel() call
    events,         \* this.events: the registrations of every event, in order
    emitted,        \* events emitted by the latest step: <<name, argument,
                    \* current task at the time, whether its token was cancelled>>
    handled,        \* handlers invoked by the latest step, <<name, registration>>
    applied,        \* <<task, options.args, arguments, outcome>> of the body the
                    \* latest step invoked
    called,         \* waiter callbacks invoked by the latest step
    ret,            \* what the latest step gave back to its caller
    op,             \* the public method the latest step called, if any
    param           \* its argument: the task of token.cancel, 1 for close(true)

vars == <<queue, currentTask, isClosed, waiters, defaultTimeout, scheduled,
          tokens, timers, promise, started, npushed, swept, events,
          emitted, handled, applied, called, ret, op, param>>

Range(f) == {f[i] : i \in DOMAIN f}

\* a taskEntry: the task's number stands for the object's identity (and for
\* its callback); its token is tokens[id].  `given` remembers the
\* options.args that args was made from.
Entry(id, timeout, args, given) ==
    [id |-> id, timeout |-> timeout, args |-> args, given |-> given]
\* `undefined` as a taskEntry
NoTask == Entry(0, Undef, <<>>, NoArgs)

Ids(q) == {q[i].id : i \in DOMAIN q}

\* a token slot before push has created the entry
NoToken == [cancelled |-> FALSE, reason |-> NoReason, cancel |-> "unset"]

\* The queue object and its host, as one value that the methods transform.
\* The records of the latest step start empty; exc tells that an exception
\* is propagating.
Self == [queue |-> queue, currentTask |-> currentTask, isClosed |-> isClosed,
         waiters |-> waiters, scheduled |-> scheduled, tokens |-> tokens,
         timers |-> timers, promise |-> promise, started |-> started,
         npushed |-> npushed, swept |-> swept, events |-> events,
         emitted |-> <<>>, handled |-> <<>>,
         applied |-> <<>>, called |-> <<>>, ret |-> "none", exc |-> FALSE]

Commit(self) == \E s \in {self} :
    /\ queue' = s.queue
    /\ currentTask' = s.currentTask
    /\ isClosed' = s.isClosed
    /\ waiters' = s.waiters
    /\ scheduled' = s.scheduled
    /\ tokens' = s.tokens
    /\ timers' = s.timers
    /\ promise' = s.promise
    /\ started' = s.started
    /\ swept' = s.swept
    /\ events' = s.events
    /\ emitted' = s.emitted
    /\ handled' = s.handled
    /\ applied' = s.applied
    /\ called' = s.called
    /\ npushed' = s.npushed
    /\ ret' = s.ret

\* ------------------------------------------------------------- methods
\* Every method maps the state `self` it is called in to the state it leaves.

\* F applied to the value of v, which is computed once
With(v, F(_)) == CHOOSE r \in {F(s) : s \in {v}} : TRUE

\* the statements F that follow a call, which run unless the call threw
Then(v, F(_)) == With(v, LAMBDA s : IF s.exc THEN s ELSE F(s))

\* off(evt, handler): removes every registration that is `handler`
off(s, evt, handler) ==
    [s EXCEPT !.events[evt] = SelectSeq(@, LAMBDA x : x # handler)]

\* on(evt, handler)
on(s, evt, handler) == [s EXCEPT !.events[evt] = Append(@, handler)]

\* a closure of once() that is not registered at the moment
NewOnce(s) ==
    CHOOSE k \in 1..MaxHandlers :
        \A e \in Events : \A i \in DOMAIN s.events[e] : s.events[e][i].once # k

\* once(evt, handler): registers a new closure cb around the handler
once(s, evt, fn) == on(s, evt, Registration(fn, NewOnce(s)))

\* handler.apply(this, args): the handler runs, and may throw
apply(s, evt, cb) ==
    [s EXCEPT !.handled = Append(@, <<evt, cb>>), !.exc = (cb.fn = "hThrow")]

\* the closure cb of once(): this.off(evt, cb); handler.apply(this, args)
onceCallback(s, evt, cb) == apply(off(s, evt, cb), evt, cb)

\* fn.apply(this, args) for one registration of the list
invoke(s, evt, cb) ==
    IF cb.once # 0 THEN onceCallback(s, evt, cb) ELSE apply(s, evt, cb)

\* this.events[evt].forEach(...) from index k: forEach visits the indices
\* below the length the list had at the start that the list still has, and
\* an exception ends it
RECURSIVE forEach(_, _, _, _)
forEach(self, evt, k, len) == With(self, LAMBDA s :
    IF k > len \/ k > Len(s.events[evt])
    THEN s
    ELSE LET s1 == invoke(s, evt, s.events[evt][k])
         IN IF s1.exc THEN s1 ELSE forEach(s1, evt, k + 1, len))

\* the record of an emission: the event, its argument, and the current task
\* and its token's cancelled flag at the time
Emission(s, evt, arg) ==
    <<evt, arg, s.currentTask.id,
      s.currentTask # NoTask /\ s.tokens[s.currentTask.id].cancelled>>

\* emit without the try and catch around forEach
emit_noCatch(self, evt, arg) == With(self, LAMBDA s :
    forEach([s EXCEPT !.emitted = Append(@, Emission(s, evt, arg))],
            evt, 1, Len(s.events[evt])))

\* emit(evt, ...args)
emit(self, evt, arg) == With(self, LAMBDA s :
    LET s1 == forEach([s EXCEPT !.emitted = Append(@, Emission(s, evt, arg))],
                      evt, 1, Len(s.events[evt]))
    IN IF s1.exc
       THEN [s1 EXCEPT !.exc = FALSE,
                       !.handled = Append(@, <<evt, ConsoleError>>)]
       ELSE s1)

\* callWaiters that leaves the waiters in the list
callWaiters_keeps(s) == [s EXCEPT !.called = @ \o s.waiters]

\* callWaiters()
callWaiters(s) ==
    [s EXCEPT !.waiters = <<>>, !.called = @ \o s.waiters]

\* this.scheduler.schedule(() => this.next())
schedule(s) == [s EXCEPT !.scheduled = @ + 1]

\* doneTask that stops at an error
doneTask_errorStops(self, task, error) == With(self, LAMBDA s :
    LET s1 == [s EXCEPT !.timers = @ \ {task}]
        s2 == [s1 EXCEPT !.tokens[task].cancel = "noop"]
    IN IF error # Falsy
       THEN emit(s2, EvError, error)
       ELSE IF s2.currentTask.id = task
       THEN LET s4 == [s2 EXCEPT !.currentTask = NoTask]
            IN IF Len(s4.queue) = 0
               THEN Then(emit(s4, EvDrained, 0), callWaiters)
               ELSE schedule(s4)
       ELSE s2)

\* doneTask without clearTimeout
doneTask_noClearTimeout(self, task, error) == With(self, LAMBDA s :
    LET s2 == [s EXCEPT !.tokens[task].cancel = "noop"]
        s3 == IF error # Falsy THEN emit(s2, EvError, error) ELSE s2
    IN IF ~s3.exc /\ s3.currentTask.id = task
       THEN LET s4 == [s3 EXCEPT !.currentTask = NoTask]
            IN IF Len(s4.queue) = 0
               THEN Then(emit(s4, EvDrained, 0), callWaiters)
               ELSE schedule(s4)
       ELSE s3)

\* doneTask that emits drained and leaves the waiters alone
doneTask_noWaiters(self, task, error) == With(self, LAMBDA s :
    LET s1 == [s EXCEPT !.timers = @ \ {task}]
        s2 == [s1 EXCEPT !.tokens[task].cancel = "noop"]
        s3 == IF error # Falsy THEN emit(s2, EvError, error) ELSE s2
    IN IF ~s3.exc /\ s3.currentTask.id = task
       THEN LET s4 == [s3 EXCEPT !.currentTask = NoTask]
            IN IF Len(s4.queue) = 0
               THEN emit(s4, EvDrained, 0)
               ELSE schedule(s4)
       ELSE s3)

\* doneTask that calls the waiters whenever the current task completes
doneTask_waitersEveryTime(self, task, error) == With(self, LAMBDA s :
    LET s1 == [s EXCEPT !.timers = @ \ {task}]
        s2 == [s1 EXCEPT !.tokens[task].cancel = "noop"]
        s3 == IF error # Falsy THEN emit(s2, EvError, error) ELSE s2
    IN IF ~s3.exc /\ s3.currentTask.id = task
       THEN LET s4 == [s3 EXCEPT !.currentTask = NoTask]
            IN IF Len(s4.queue) = 0
               THEN Then(emit(s4, EvDrained, 0), callWaiters)
               ELSE callWaiters(schedule(s4))
       ELSE s3)

\* doneTask that emits drained each time the current task completes
doneTask_drainedEveryTime(self, task, error) == With(self, LAMBDA s :
    LET s1 == [s EXCEPT !.timers = @ \ {task}]
        s2 == [s1 EXCEPT !.tokens[task].cancel = "noop"]
        s3 == IF error # Falsy THEN emit(s2, EvError, error) ELSE s2
    IN IF ~s3.exc /\ s3.currentTask.id = task
       THEN LET s4 == [s3 EXCEPT !.currentTask = NoTask]
            IN IF Len(s4.queue) = 0
               THEN Then(emit(s4, EvDrained, 0), callWaiters)
               ELSE Then(emit(s4, EvDrained, 0), schedule)
       ELSE s3)

\* doneTask that leaves the cancel method of the token in place
doneTask_keepsCancel(self, task, error) == With(self, LAMBDA s :
    LET s1 == [s EXCEPT !.timers = @ \ {task}]
        s3 == IF error # Falsy THEN emit(s1, EvError, error) ELSE s1
    IN IF ~s3.exc /\ s3.currentTask.id = task
       THEN LET s4 == [s3 EXCEPT !.currentTask = NoTask]
            IN IF Len(s4.queue) = 0
               THEN Then(emit(s4, EvDrained, 0), callWaiters)
               ELSE schedule(s4)
       ELSE s3)

\* doneTask without the test this.currentTask === task
doneTask_noCurrentTest(self, task, error) == With(self, LAMBDA s :
    LET s1 == [s EXCEPT !.timers = @ \ {task}]
        s2 == [s1 EXCEPT !.tokens[task].cancel = "noop"]
        s3 == IF error # Falsy THEN emit(s2, EvError, error) ELSE s2
    IN IF ~s3.exc
       THEN LET s4 == [s3 EXCEPT !.currentTask = NoTask]
            IN IF Len(s4.queue) = 0
               THEN Then(emit(s4, EvDrained, 0), callWaiters)
               ELSE schedule(s4)
       ELSE s3)

\* doneTask that starts the body of the next entry itself, which returns a
\* pending promise
doneTask_startsNext(self, task, error) == With(self, LAMBDA s :
    LET s1 == [s EXCEPT !.timers = @ \ {task}]
        s2 == [s1 EXCEPT !.tokens[task].cancel = "noop"]
        s3 == IF error # Falsy THEN emit(s2, EvError, error) ELSE s2
    IN IF ~s3.exc /\ s3.currentTask.id = task
       THEN LET s4 == [s3 EXCEPT !.currentTask = NoTask]
            IN IF Len(s4.queue) = 0
               THEN Then(emit(s4, EvDrained, 0), callWaiters)
               ELSE [s4 EXCEPT !.currentTask = Head(s4.queue),
                               !.queue = Tail(@),
                               !.started = Append(@, Head(s4.queue).id),
                               !.promise[Head(s4.queue).id] = "pending"]
       ELSE s3)

\* doneTask that hands nothing to the scheduler
doneTask_noSchedule(self, task, error) == With(self, LAMBDA s :
    LET s1 == [s EXCEPT !.timers = @ \ {task}]
        s2 == [s1 EXCEPT !.tokens[task].cancel = "noop"]
        s3 == IF error # Falsy THEN emit(s2, EvError, error) ELSE s2
    IN IF ~s3.exc /\ s3.currentTask.id = task
       THEN LET s4 == [s3 EXCEPT !.currentTask = NoTask]
            IN IF Len(s4.queue) = 0
               THEN Then(emit(s4, EvDrained, 0), callWaiters)
               ELSE s4
       ELSE s3)

\* doneTask(task, error); clearTimeout leaves a timer that is not live alone
doneTask(self, task, error) == With(self, LAMBDA s :
    LET s1 == [s EXCEPT !.timers = @ \ {task}]
        s2 == [s1 EXCEPT !.tokens[task].cancel = "noop"]
        s3 == IF error # Falsy THEN emit(s2, EvError, error) ELSE s2
    IN IF ~s3.exc /\ s3.currentTask.id = task
       THEN LET s4 == [s3 EXCEPT !.currentTask = NoTask]
            IN IF Len(s4.queue) = 0
               THEN Then(emit(s4, EvDrained, 0), callWaiters)
               ELSE schedule(s4)
       ELSE s3)

\* cancelTask that sets the token and leaves the completion out
cancelTask_flagsOnly(s, task, reason) ==
    [s EXCEPT !.tokens[task].cancelled = TRUE, !.tokens[task].reason = reason]

\* cancelTask(task, reason)
cancelTask(s, task, reason) ==
    doneTask([s EXCEPT !.tokens[task].cancelled = TRUE,
                       !.tokens[task].reason = reason], task, Falsy)

\* cancellationToken.cancel that is cancelTask for ever
tokenCancel_always(s, task, reason) == cancelTask(s, task, reason)

\* cancellationToken.cancel(reason): cancelTask, until doneTask makes it noop
tokenCancel(s, task, reason) ==
    IF s.tokens[task].cancel = "cancelTask"
    THEN cancelTask(s, task, reason)
    ELSE s

\* the test of wait(): the promise it returns is already resolved
isEmpty(s) == s.currentTask = NoTask /\ Len(s.queue) = 0

\* a waiter callback that is not registered at the moment
NewWaiter(s) == CHOOSE w \in Waiters : w \notin Range(s.waiters)

\* wait that registers a waiter whatever the state
wait_alwaysRegisters(s) ==
    [s EXCEPT !.waiters = Append(@, NewWaiter(s)), !.ret = "pending"]

\* wait(): returns a resolved promise, or one that a new waiter resolves
wait(s) ==
    IF isEmpty(s)
    THEN [s EXCEPT !.ret = "resolved"]
    ELSE [s EXCEPT !.waiters = Append(@, NewWaiter(s)), !.ret = "pending"]

\* the tasks that are current or waiting in state s, added to s.swept
Sweep(s) == s.swept \cup Ids(s.queue) \cup
            (IF s.currentTask # NoTask THEN {s.currentTask.id} ELSE {})

\* cancel that emits drained whatever the queue held
cancel_alwaysDrained(self) == With(self, LAMBDA s :
    Then(IF s.currentTask # NoTask
         THEN cancelTask(s, s.currentTask.id, ReasonCancel)
         ELSE s,
         LAMBDA s1 :
           Then(emit([s1 EXCEPT !.queue = <<>>], EvDrained, 0), wait)))

\* cancel that leaves the queue as it is
cancel_noSplice(s) ==
    wait(IF s.currentTask # NoTask
         THEN cancelTask(s, s.currentTask.id, ReasonCancel)
         ELSE s)

\* cancel()
cancel(self) == With(self, LAMBDA s :
    Then(IF s.currentTask # NoTask
         THEN cancelTask(s, s.currentTask.id, ReasonCancel)
         ELSE s,
         LAMBDA s1 :
           Then(IF Len(s1.queue) # 0
                THEN emit([s1 EXCEPT !.queue = <<>>], EvDrained, 0)
                ELSE s1,
                wait)))

\* close that cancels whatever its argument
close_alwaysCancels(s, c) ==
    IF ~s.isClosed THEN cancel([s EXCEPT !.isClosed = TRUE]) ELSE wait(s)

\* close that leaves _isClosed alone
close_noFlag(s, c) == IF c THEN cancel(s) ELSE wait(s)

\* close(cancel)
close(s, c) ==
    IF ~s.isClosed
    THEN LET s1 == [s EXCEPT !.isClosed = TRUE]
         IN IF c THEN cancel(s1) ELSE wait(s1)
    ELSE wait(s)

\* whether a value of options.args is truthy: every array is
Truthy(argsOption) ==
    \/ argsOption.kind = "array"
    \/ argsOption.kind = "value" /\ argsOption.val[1] # Falsy

\* taskEntry.args of push, the token included
taskArgs(argsOption) ==
    (IF Truthy(argsOption) THEN argsOption.val ELSE <<>>) \o <<TokenArg>>

\* push that puts the new entry at the head of the queue
push_unshift(s, timeoutOption, argsOption) ==
    IF s.isClosed
    THEN [s EXCEPT !.ret = "threw"]
    ELSE LET task == s.npushed + 1
             taskEntry == Entry(task,
                               IF timeoutOption # Undef THEN timeoutOption
                               ELSE defaultTimeout,
                               taskArgs(argsOption), argsOption)
             s1 == [s EXCEPT !.npushed = task,
                             !.tokens[task] = [cancelled |-> FALSE,
                                               reason |-> NoReason,
                                               cancel |-> "cancelTask"],
                             !.queue = <<taskEntry>> \o @]
         IN [schedule(s1) EXCEPT !.ret = "token"]

\* push without the test of _isClosed
push_noClosedTest(s, timeoutOption, argsOption) ==
    LET task == s.npushed + 1
        taskEntry == Entry(task,
                          IF timeoutOption # Undef THEN timeoutOption
                          ELSE defaultTimeout,
                          taskArgs(argsOption), argsOption)
        s1 == [s EXCEPT !.npushed = task,
                        !.tokens[task] = [cancelled |-> FALSE,
                                          reason |-> NoReason,
                                          cancel |-> "cancelTask"],
                        !.queue = Append(@, taskEntry)]
    IN [schedule(s1) EXCEPT !.ret = "token"]

\* push that takes the timeout of the queue for a timeout option of 0
push_zeroIsDefault(s, timeoutOption, argsOption) ==
    IF s.isClosed
    THEN [s EXCEPT !.ret = "threw"]
    ELSE LET task == s.npushed + 1
             taskEntry == Entry(task,
                               IF timeoutOption \notin {Undef, 0}
                               THEN timeoutOption
                               ELSE defaultTimeout,
                               taskArgs(argsOption), argsOption)
             s1 == [s EXCEPT !.npushed = task,
                             !.tokens[task] = [cancelled |-> FALSE,
                                               reason |-> NoReason,
                                               cancel |-> "cancelTask"],
                             !.queue = Append(@, taskEntry)]
         IN [schedule(s1) EXCEPT !.ret = "token"]

\* push(task, options): throws, or returns the token of the new entry,
\* whose number is the next one
push(s, timeoutOption, argsOption) ==
    IF s.isClosed
    THEN [s EXCEPT !.ret = "threw"]
    ELSE LET task == s.npushed + 1
             taskEntry == Entry(task,
                               IF timeoutOption # Undef THEN timeoutOption
                               ELSE defaultTimeout,
                               taskArgs(argsOption), argsOption)
             s1 == [s EXCEPT !.npushed = task,
                             !.tokens[task] = [cancelled |-> FALSE,
                                               reason |-> NoReason,
                                               cancel |-> "cancelTask"],
                             !.queue = Append(@, taskEntry)]
         IN [schedule(s1) EXCEPT !.ret = "token"]

\* a shift loop that skips nothing
skipCancelled_none(s, q) == q

\* the shift loop of next(): what is left of the queue from the first entry
\* whose token is not cancelled
RECURSIVE skipCancelled(_, _)
skipCancelled(s, q) ==
    IF q # <<>> /\ s.tokens[Head(q).id].cancelled
    THEN skipCancelled(s, Tail(q))
    ELSE q

\* task.callback.apply(undefined, task.args): what the body does before it
\* returns or throws
callback(self, task, pre) == With(self, LAMBDA s :
    LET s1 == [s EXCEPT !.started = Append(@, task.id)]
    IN CASE pre = "token" -> tokenCancel(s1, task.id, ReasonUser)
         [] pre = "queue" -> [cancel(s1) EXCEPT !.ret = s.ret, !.swept = Sweep(s1)]
         [] OTHER -> s1)

\* next() that emits drained when every queued entry was skipped
runNextTask_drained(self, pre, out) == With(self, LAMBDA s :
    LET rest == skipCancelled(s, s.queue)
    IN IF rest # <<>>
       THEN LET task == Head(rest)
                s1 == [s EXCEPT !.queue = Tail(rest), !.currentTask = task]
                s2 == IF task.timeout \notin {Undef, 0}
                      THEN [s1 EXCEPT !.timers = @ \cup {task.id}]
                      ELSE s1
                try == Then([callback(s2, task, pre) EXCEPT
                               !.applied = <<task.id, task.given, task.args, out>>],
                            LAMBDA s3 :
                              CASE out = "return" -> doneTask(s3, task.id, Falsy)
                                [] out \in {"throw", "throwFalsy"} ->
                                       [s3 EXCEPT !.exc = TRUE]
                                [] OTHER -> [s3 EXCEPT !.promise[task.id] = out])
            IN With(try, LAMBDA s4 :
                 IF s4.exc
                 THEN doneTask([s4 EXCEPT !.exc = FALSE], task.id,
                               IF out = "throwFalsy" THEN Falsy ELSE task.id)
                 ELSE s4)
       ELSE IF s.queue # <<>>
       THEN Then(emit([s EXCEPT !.queue = <<>>], EvDrained, 0), callWaiters)
       ELSE callWaiters(s))

\* next() that leaves the entry it starts in the queue
runNextTask_noShift(self, pre, out) == With(self, LAMBDA s :
    LET rest == skipCancelled(s, s.queue)
    IN IF rest # <<>>
       THEN LET task == Head(rest)
                s1 == [s EXCEPT !.queue = rest, !.currentTask = task]
                s2 == IF task.timeout \notin {Undef, 0}
                      THEN [s1 EXCEPT !.timers = @ \cup {task.id}]
                      ELSE s1
                try == Then([callback(s2, task, pre) EXCEPT
                               !.applied = <<task.id, task.given, task.args, out>>],
                            LAMBDA s3 :
                              CASE out = "return" -> doneTask(s3, task.id, Falsy)
                                [] out \in {"throw", "throwFalsy"} ->
                                       [s3 EXCEPT !.exc = TRUE]
                                [] OTHER -> [s3 EXCEPT !.promise[task.id] = out])
            IN With(try, LAMBDA s4 :
                 IF s4.exc
                 THEN doneTask([s4 EXCEPT !.exc = FALSE], task.id,
                               IF out = "throwFalsy" THEN Falsy ELSE task.id)
                 ELSE s4)
       ELSE callWaiters([s EXCEPT !.queue = <<>>]))

\* the body of `if (!this.currentTask)` in next()
runNextTask(self, pre, out) == With(self, LAMBDA s :
    LET rest == skipCancelled(s, s.queue)
    IN IF rest # <<>>
       THEN LET task == Head(rest)
                s1 == [s EXCEPT !.queue = Tail(rest), !.currentTask = task]
                s2 == IF task.timeout \notin {Undef, 0}
                      THEN [s1 EXCEPT !.timers = @ \cup {task.id}]
                      ELSE s1
                \* the try block: an exception of the body's own calls
                \* propagates like one the body throws
                try == Then([callback(s2, task, pre) EXCEPT
                               !.applied = <<task.id, task.given, task.args, out>>],
                            LAMBDA s3 :
                              CASE out = "return" -> doneTask(s3, task.id, Falsy)
                                [] out \in {"throw", "throwFalsy"} ->
                                       [s3 EXCEPT !.exc = TRUE]
                                [] OTHER -> [s3 EXCEPT !.promise[task.id] = out])
            \* the catch block
            IN With(try, LAMBDA s4 :
                 IF s4.exc
                 THEN doneTask([s4 EXCEPT !.exc = FALSE], task.id,
                               IF out = "throwFalsy" THEN Falsy ELSE task.id)
                 ELSE s4)
       ELSE callWaiters([s EXCEPT !.queue = <<>>]))

\* next without the test of currentTask
next_noTest(s, pre, out) == runNextTask(s, pre, out)

\* next()
next(s, pre, out) ==
    IF s.currentTask = NoTask THEN runNextTask(s, pre, out) ELSE s

\* the callbacks next() passes to res.then
thenCallback(s, task, out) ==
    doneTask([s EXCEPT !.promise[task] = "none"], task,
             IF out = "rejected" THEN task ELSE Falsy)

\* a timer callback that cancels the task before it emits the event
timeoutCallback_cancelFirst(self, task) == With(self, LAMBDA s :
    emit(cancelTask([s EXCEPT !.timers = @ \ {task}], task, ReasonTimeout),
         EvTimeout, 0))

\* a timer callback that sets the token and leaves the completion out
timeoutCallback_flagsOnly(self, task) == With(self, LAMBDA s :
    Then(emit([s EXCEPT !.timers = @ \ {task}], EvTimeout, 0),
         LAMBDA s1 : cancelTask_flagsOnly(s1, task, ReasonTimeout)))

\* the callback next() passes to setTimeout
timeoutCallback(self, task) == With(self, LAMBDA s :
    Then(emit([s EXCEPT !.timers = @ \ {task}], EvTimeout, 0),
         LAMBDA s1 : cancelTask(s1, task, ReasonTimeout)))

\* ------------------------------------------------------------- actions

\* then-callbacks of an already settled promise are microtasks: they run
\* before any other callback or timer of the host
MicrotaskPending == \E t \in Tasks : promise[t] \in SettleOut

Init ==
    /\ queue = <<>>
    /\ currentTask = NoTask
    /\ isClosed = FALSE
    /\ waiters = <<>>
    /\ defaultTimeout \in {Undef, SomeMs}
    /\ scheduled = 0
    /\ tokens = [t \in Tasks |-> NoToken]
    /\ timers = {}
    /\ promise = [t \in Tasks |-> "none"]
    /\ started = <<>>
    /\ npushed = 0
    /\ swept = {}
    /\ events = [e \in Events |-> <<>>]
    /\ emitted = <<>>
    /\ handled = <<>>
    /\ applied = <<>>
    /\ called = <<>>
    /\ ret = "none"
    /\ op = "new"
    /\ param = 0

\* queue.push(task, {timeout, args})
PushWith(timeoutOption, argsOption) ==
    /\ ~MicrotaskPending
    /\ isClosed \/ npushed < MaxTasks
    /\ op' = "push"
    /\ param' = 0
    /\ Commit(push(Self, timeoutOption, argsOption))
    /\ UNCHANGED defaultTimeout

\* queue.push(task, {timeout})
Push(timeoutOption) == PushWith(timeoutOption, NoArgs)

\* queue.on(evt, fn); MaxHandlers bounds the registrations at a time
NumHandlers == Len(events[EvDrained]) + Len(events[EvError]) + Len(events[EvTimeout])

\* the lists of the events are independent of each other: user code
\* registers handlers for one event at a time
OthersEmpty(evt) == \A e \in Events \ {evt} : events[e] = <<>>

On(evt, fn) ==
    /\ ~MicrotaskPending
    /\ NumHandlers < MaxHandlers
    /\ OthersEmpty(evt)
    /\ op' = "on"
    /\ param' = 0
    /\ Commit(on(Self, evt, Registration(fn, 0)))
    /\ UNCHANGED defaultTimeout

\* queue.once(evt, fn)
Once(evt, fn) ==
    /\ ~MicrotaskPending
    /\ NumHandlers < MaxHandlers
    /\ OthersEmpty(evt)
    /\ op' = "once"
    /\ param' = 0
    /\ Commit(once(Self, evt, fn))
    /\ UNCHANGED defaultTimeout

\* queue.off(evt, fn)
Off(evt, fn) ==
    /\ ~MicrotaskPending
    /\ op' = "off"
    /\ param' = 0
    /\ Commit(off(Self, evt, Registration(fn, 0)))
    /\ UNCHANGED defaultTimeout

\* queue.cancel()
Cancel ==
    /\ ~MicrotaskPending
    /\ op' = "cancel"
    /\ param' = 0
    /\ Commit([cancel(Self) EXCEPT !.swept = Sweep(Self)])
    /\ UNCHANGED defaultTimeout

\* queue.close(c); MaxWaiters bounds the waiters registered at a time
Close(c) ==
    /\ ~MicrotaskPending
    /\ (c /\ ~isClosed) \/ isEmpty(Self) \/ Len(waiters) < MaxWaiters
    /\ op' = "close"
    /\ param' = (IF c THEN 1 ELSE 0)
    /\ Commit([close(Self, c) EXCEPT
                 !.swept = IF c /\ ~isClosed THEN Sweep(Self) ELSE @])
    /\ UNCHANGED defaultTimeout

\* queue.wait()
Wait ==
    /\ ~MicrotaskPending
    /\ isEmpty(Self) \/ Len(waiters) < MaxWaiters
    /\ op' = "wait"
    /\ param' = 0
    /\ Commit(wait(Self))
    /\ UNCHANGED defaultTimeout

\* user code calls cancel(reason) on the token of task t
TokenCancel(t) ==
    /\ ~MicrotaskPending
    /\ t <= npushed
    /\ op' = "token.cancel"
    /\ param' = t
    /\ Commit(tokenCancel(Self, t, ReasonUser))
    /\ UNCHANGED defaultTimeout

\* the scheduler runs one callback () => this.next(); when that starts a
\* task, its body behaves in one of the ways of BodyPre x BodyOut
WillStart == currentTask = NoTask /\ skipCancelled(Self, queue) # <<>>

RunNext ==
    /\ ~MicrotaskPending
    /\ scheduled > 0
    /\ op' = "none"
    /\ param' = 0
    /\ UNCHANGED defaultTimeout
    /\ \E pre \in IF WillStart THEN BodyPre ELSE {"none"},
          out \in IF WillStart THEN BodyOut ELSE {"return"} :
            Commit(next([Self EXCEPT !.scheduled = @ - 1], pre, out))

\* a pending promise returned by task t settles and its then-callback runs
Settle(t, out) ==
    /\ ~MicrotaskPending
    /\ promise[t] = "pending"
    /\ op' = "none"
    /\ param' = 0
    /\ Commit(thenCallback(Self, t, out))
    /\ UNCHANGED defaultTimeout

\* the then-callback of an already settled promise runs
Microtask(t) ==
    /\ promise[t] \in SettleOut
    /\ op' = "none"
    /\ param' = 0
    /\ Commit(thenCallback(Self, t, promise[t]))
    /\ UNCHANGED defaultTimeout

\* the timeout timer of task t fires
TimerFire(t) ==
    /\ ~MicrotaskPending
    /\ t \in timers
    /\ op' = "none"
    /\ param' = 0
    /\ Commit(timeoutCallback(Self, t))
    /\ UNCHANGED defaultTimeout

Next ==
    \/ \E o \in TimeoutOptions : Push(o)
    \/ Cancel
    \/ \E c \in BOOLEAN : Close(c)
    \/ Wait
    \/ \E t \in Tasks : TokenCancel(t)
    \/ RunNext
    \/ \E t \in Tasks, out \in SettleOut : Settle(t, out)
    \/ \E t \in Tasks : Microtask(t)
    \/ \E t \in Tasks : TimerFire(t)

Spec == Init /\ [][Next]_vars

TypeOK ==
    /\ isClosed \in BOOLEAN
    /\ scheduled \in 0..(2 * MaxTasks)
    /\ npushed \in 0..MaxTasks
    /\ Len(waiters) <= MaxWaiters
    /\ timers \subseteq Tasks
    /\ Ids(queue) \subseteq Tasks
    /\ param \in 0..MaxTasks

\* ------------------------------------------------------------ fairness
\* The scheduler runs every callback it was handed, a returned promise
\* settles, and the host runs the then-callbacks of a settled promise.
SettleSome(t) == \E out \in SettleOut : Settle(t, out)

Fairness ==
    /\ WF_vars(RunNext)
    /\ \A t \in Tasks : WF_vars(SettleSome(t)) /\ WF_vars(Microtask(t))

\* The same program with at most MaxFairTasks tasks pushed.
MaxFairTasks == 2

FairNext ==
    \/ \E o \in TimeoutOptions : Push(o) /\ (isClosed \/ npushed < MaxFairTasks)
    \/ Cancel
    \/ \E c \in BOOLEAN : Close(c)
    \/ Wait
    \/ \E t \in Tasks : TokenCancel(t)
    \/ RunNext
    \/ \E t \in Tasks, out \in SettleOut : Settle(t, out)
    \/ \E t \in Tasks : Microtask(t)
    \/ \E t \in Tasks : TimerFire(t)

FairSpec == Init /\ [][FairNext]_vars /\ Fairness

\* ------------------------------------------------------ event handlers
\* The same program, at most MaxFairTasks tasks pushed, with user code that
\* registers and removes event handlers.
EventsNext ==
    \/ Push(Undef) /\ (isClosed \/ npushed < MaxFairTasks)
    \/ Cancel
    \/ Wait
    \/ \E t \in Tasks : TokenCancel(t)
    \/ RunNext
    \/ \E t \in Tasks, out \in SettleOut : Settle(t, out)
    \/ \E t \in Tasks : Microtask(t)
    \/ \E t \in Tasks : TimerFire(t)
    \/ \E e \in Events, fn \in Handlers : On(e, fn)
    \/ \E e \in Events, fn \in Handlers : Once(e, fn)
    \/ \E e \in Events, fn \in Handlers : Off(e, fn)

EventsSpec == Init /\ [][EventsNext]_vars

\* ----------------------------------------------------------- arguments
\* The same program, at most MaxFairTasks tasks pushed, with user code that
\* passes options.args to push.
ArgsNext ==
    \/ \E a \in ArgsOptions :
          PushWith(Undef, a) /\ (isClosed \/ npushed < MaxFairTasks)
    \/ Cancel
    \/ \E c \in BOOLEAN : Close(c)
    \/ Wait
    \/ \E t \in Tasks : TokenCancel(t)
    \/ RunNext
    \/ \E t \in Tasks, out \in SettleOut : Settle(t, out)
    \/ \E t \in Tasks : Microtask(t)
    \/ \E t \in Tasks : TimerFire(t)

ArgsSpec == Init /\ [][ArgsNext]_vars

\* ------------------------------------------------------------ timeouts
\* The same program, at most MaxFairTasks tasks pushed, constructed with
\* any of no timeout, the timeout 0 and a timeout of some milliseconds.
TimeoutInit ==
    /\ queue = <<>>
    /\ currentTask = NoTask
    /\ isClosed = FALSE
    /\ waiters = <<>>
    /\ defaultTimeout \in TimeoutOptions
    /\ scheduled = 0
    /\ tokens = [t \in Tasks |-> NoToken]
    /\ timers = {}
    /\ promise = [t \in Tasks |-> "none"]
    /\ started = <<>>
    /\ npushed = 0
    /\ swept = {}
    /\ events = [e \in Events |-> <<>>]
    /\ emitted = <<>>
    /\ handled = <<>>
    /\ applied = <<>>
    /\ called = <<>>
    /\ ret = "none"
    /\ op = "new"
    /\ param = 0

TimeoutSpec == TimeoutInit /\ [][FairNext]_vars


\* -------------------------------------------------------------- claims

Pushed == 1..npushed
Starts(t) == Cardinality({i \in DOMAIN started : started[i] = t})
Started(t) == t \in Range(started)
Cancelled(t) == tokens[t].cancelled
\* doneTask has run for a started task t
Completed(t) == Started(t) /\ tokens[t].cancel = "noop"
InOrder(seq) == \A i, j \in DOMAIN seq : i < j => seq[i] < seq[j]

\* C1: task bodies are started in the order in which the tasks were pushed
\* (tasks are numbered in push order), whatever the bodies return.
C1_StartedInPushOrder == InOrder(started)

\* two tasks started: the first returned a promise that is still pending,
\* the second one that was already settled
C1_Witness ==
    /\ started = <<1, 2>>
    /\ promise[1] = "pending"
    /\ promise[2] = "resolved"

\* C2: the current task is the one started task that has not been
\* completed, so there is at most one, and a body is invoked only in a step
\* that finds the current-task slot empty.
C2_OneCurrent ==
    /\ [](\A t \in Tasks :
            (Started(t) /\ tokens[t].cancel = "cancelTask") <=> currentTask.id = t)
    /\ [][started' # started => currentTask = NoTask]_vars

\* a run-loop entry is pending while a task is current and another waits
C2_Witness == currentTask # NoTask /\ scheduled > 0 /\ queue # <<>>

C4_CancelCurrentUnblocks ==
    [][\A t \in Tasks :
         (/\ currentTask.id = t
          /\ promise[t] = "pending"
          /\ op' = "token.cancel"
          /\ ~Cancelled(t) /\ Cancelled(t)')
         => /\ currentTask' = NoTask
            /\ promise'[t] = "pending"
            /\ queue # <<>> => (scheduled' = scheduled + 1 /\ queue' = queue)]_vars

\* task 1 was cancelled by its token while running, its promise is still
\* pending and task 2 has been started
C4_Witness ==
    /\ Cancelled(1) /\ tokens[1].reason = ReasonUser
    /\ promise[1] = "pending"
    /\ started = <<1, 2>>
    /\ swept = {}

\* C5: push on a closed queue throws and changes nothing of the queue.
C5_PushClosedThrows ==
    [][(isClosed /\ op' = "push")
         => /\ ret' = "threw"
            /\ UNCHANGED <<queue, currentTask, isClosed, waiters, scheduled,
                           tokens, timers, promise, started, npushed>>]_vars

\* a push was refused while a task was current and others were waiting
C5_Witness ==
    /\ isClosed /\ op = "push" /\ ret = "threw"
    /\ currentTask # NoTask /\ queue # <<>>

\* C6: in a closed queue, every pushed task is eventually started and
\* completed, unless its token is cancelled or a cancel() swept it, and the
\* tasks are started in push order.
C6_CloseRunsRemaining ==
    /\ \A t \in Tasks :
          (isClosed /\ t \in Pushed) ~> (Completed(t) \/ Cancelled(t) \/ t \in swept)
    /\ []InOrder(started)

\* close() was called with a task current and another waiting
C6_Witness ==
    /\ isClosed /\ op = "close" /\ ret = "pending"
    /\ currentTask # NoTask /\ queue # <<>>
    /\ swept = {}

\* C7: a task that was current or waiting when cancel(), or a first
\* close(true), was called is not started in any later step.
C7_SweptNeverStarted ==
    [][\A t \in swept : Starts(t)' = Starts(t)]_vars

\* task 1 was waiting at a cancel() with its run-loop entry pending; the
\* entry has run since, and task 2, pushed later, has been started
C7_Witness ==
    /\ 1 \in swept /\ ~Started(1)
    /\ started = <<2>>
    /\ scheduled = 0

\* C8: every task that was current or waiting when cancel() was called has
\* its token cancelled with the reason cancellationTokenReasons.cancel.
C8_SweptAreCancelled ==
    \A t \in swept : Cancelled(t) /\ tokens[t].reason = ReasonCancel

\* C9: no error event is emitted for a task whose token is cancelled.
C9_NoErrorAfterCancel ==
    \A i \in DOMAIN emitted :
        emitted[i][1] = EvError => ~Cancelled(emitted[i][2])

\* C10: wait() on a queue with no current task and an empty store returns a
\* resolved promise and changes nothing of the queue.
C10_WaitOnEmpty ==
    [][(currentTask = NoTask /\ queue = <<>> /\ op' = "wait")
         => /\ ret' = "resolved"
            /\ UNCHANGED <<queue, currentTask, isClosed, waiters, scheduled,
                           tokens, timers, promise, started, npushed>>]_vars

\* wait() was called on a queue that was never used
C10_Witness ==
    /\ op = "wait" /\ ret = "resolved"
    /\ npushed = 0 /\ ~isClosed /\ scheduled = 0

\* C11: every waiter that wait() or close() registered is eventually
\* called, whatever the tasks do and whichever of them are cancelled.
C11_WaitersResolved ==
    \A w \in Waiters : (w \in Range(waiters)) ~> (w \in Range(called))

\* two waiters were registered while task 1 was running and are called in
\* the step that completes it
C11_Witness ==
    /\ called = <<1, 2>>
    /\ started = <<1>> /\ Completed(1) /\ ~Cancelled(1)
    /\ npushed = 1

\* C12: waiters are called only by a step that leaves no current task and
\* no queued entry.
C12_CalledOnlyWhenEmpty ==
    called # <<>> => (currentTask = NoTask /\ queue = <<>>)

\* both waiters are called by the step that completes the last of two tasks
C12_Witness ==
    /\ Len(called) = 2
    /\ started = <<1, 2>> /\ Completed(2)
    /\ currentTask = NoTask /\ queue = <<>>

\* the latest step emitted the event evt
Emitted(evt) == \E i \in DOMAIN emitted : emitted[i][1] = evt
\* how many times the latest step emitted the event evt
TimesEmitted(evt) == Cardinality({i \in DOMAIN emitted : emitted[i][1] = evt})

\* C13: a step that emits timeout is the expiry of the current task's
\* timer: timeout is the first event of the step and is emitted while the
\* task is current and its token is not cancelled; the step leaves the token
\* cancelled with the timeout reason and no current task, and it schedules
\* a run-loop entry when entries are queued, or else emits drained.
C13_TimeoutThenCancel ==
    [][Emitted(EvTimeout)' =>
         \E t \in Tasks :
            /\ currentTask.id = t
            /\ t \in timers /\ ~Cancelled(t)
            /\ emitted'[1] = <<EvTimeout, 0, t, FALSE>>
            /\ TimesEmitted(EvTimeout)' = 1
            /\ tokens'[t].cancelled /\ tokens'[t].reason = ReasonTimeout
            /\ currentTask' = NoTask
            /\ IF queue # <<>>
               THEN scheduled' = scheduled + 1 /\ queue' = queue
                    /\ ~Emitted(EvDrained)'
               ELSE emitted'[2] = <<EvDrained, 0, 0, FALSE>>]_vars

\* task 1 timed out while its promise was pending, and task 2 was started
C13_Witness ==
    /\ Cancelled(1) /\ tokens[1].reason = ReasonTimeout
    /\ promise[1] = "pending"
    /\ started = <<1, 2>>

\* C14: only the current task has a live timer, and the timeout event and
\* the timeout reason are given only in a step that starts with the task
\* current and its timer live.
C14_TimerOnlyForCurrent ==
    /\ [](timers \subseteq {currentTask.id})
    /\ [][\A t \in Tasks :
            (tokens'[t].reason = ReasonTimeout /\ tokens[t].reason # ReasonTimeout)
            => (currentTask.id = t /\ t \in timers /\ ~Completed(t))]_vars
    /\ [][Emitted(EvTimeout)' => currentTask.id \in timers]_vars

\* task 1 was cancelled by its token, task 2 is running with its timer
\* live and no other timer is
C14_Witness ==
    /\ Cancelled(1) /\ Completed(1)
    /\ currentTask.id = 2 /\ timers = {2}
    /\ promise[1] = "pending" /\ promise[2] = "pending"

\* the argument list a body is to be invoked with: the elements of an
\* array, or the single value, and then the token
ExpectedArgs(argsOption) ==
    (IF argsOption.kind = "absent" THEN <<>> ELSE argsOption.val) \o <<TokenArg>>

\* C15: every body is invoked with the elements of the args array, or the
\* single args value, followed by the token, and with the token alone when
\* args is absent.
C15_ArgsThenToken ==
    applied # <<>> => applied[3] = ExpectedArgs(applied[2])

\* the latest step invoked the body of task t, which threw
Threw(t) ==
    applied # <<>> /\ applied[1] = t /\ applied[4] \in {"throw", "throwFalsy"}
\* the promise that task t returned is rejected, or the latest step ran the
\* rejection callback of task t with a truthy value
Rejected(t) ==
    \/ promise[t] \in {"rejected", "rejectedFalsy"}
    \/ \E i \in DOMAIN emitted : emitted[i][1] = EvError /\ emitted[i][2] = t
SomeFailed == \E t \in Tasks : Threw(t) \/ Rejected(t)

\* C16: a task whose body throws is not current after the step that invoked
\* it, a task whose promise rejects is not current after the step that runs
\* its rejection callback, and from then on every queued task is still
\* started, in push order, unless it is cancelled, and every registered
\* waiter is still called.
C16_FailureDoesNotStop ==
    /\ [][\A t \in Tasks : Threw(t)' => currentTask'.id # t]_vars
    /\ [][\A t \in Tasks :
            (promise[t] \in {"rejected", "rejectedFalsy"} /\ promise'[t] = "none")
            => currentTask'.id # t]_vars
    /\ []InOrder(started)
    /\ \A u \in 1..MaxFairTasks :
          (SomeFailed /\ u \in Ids(queue))
          ~> (Started(u) \/ Cancelled(u) \/ u \in swept)
    /\ \A w \in Waiters :
          (SomeFailed /\ w \in Range(waiters)) ~> (w \in Range(called))

\* the body of task 1 threw with task 2 queued and a waiter registered: no
\* task is current and a run-loop entry is pending
C16_Witness ==
    /\ Threw(1) /\ Emitted(EvError)
    /\ currentTask = NoTask
    /\ Ids(queue) = {2} /\ ~Cancelled(2)
    /\ waiters # <<>> /\ scheduled > 0

\* the arguments of the error events the latest step emitted, in order
ErrorPayloads ==
    LET errors == SelectSeq(emitted, LAMBDA e : e[1] = EvError)
    IN [i \in DOMAIN errors |-> errors[i][2]]

\* C17: the step in which the body of a task throws, and the step that runs
\* the rejection callback of a task's promise, emit error exactly once,
\* with the thrown or rejection value, whether that value is truthy (the
\* number of the task) or falsy.
C17_ErrorOncePerFailure ==
    [][\A t \in Tasks :
         /\ Threw(t)' =>
              ErrorPayloads' = <<IF applied'[4] = "throw" THEN t ELSE Falsy>>
         /\ (promise[t] \in {"rejected", "rejectedFalsy"} /\ promise'[t] = "none") =>
              ErrorPayloads' = <<IF promise[t] = "rejected" THEN t ELSE Falsy>>]_vars

\* the latest step caught an exception of a handler of the event evt
HandlerThrew(evt) == \E i \in DOMAIN handled : handled[i] = <<evt, ConsoleError>>

\* C18: a step in which an event handler throws still finishes its state
\* changes: the task an error was emitted for is not current, after a
\* drained event no task is current and nothing is queued, after a timeout
\* event a token has been cancelled with the timeout reason and no task is
\* current, cancel() returns its promise; the current task is never a
\* completed one, and a run-loop entry is pending whenever no task is
\* current and an entry is queued or a waiter registered.
C18_HandlerExceptionContained ==
    /\ [][HandlerThrew(EvError)' =>
            \A i \in DOMAIN emitted' :
               emitted'[i][1] = EvError => currentTask'.id # emitted'[i][2]]_vars
    /\ [][HandlerThrew(EvDrained)' =>
            /\ currentTask' = NoTask /\ queue' = <<>>
            /\ op' = "cancel" => ret' = "resolved"]_vars
    /\ [][HandlerThrew(EvTimeout)' =>
            /\ currentTask' = NoTask
            /\ \E t \in Tasks : /\ tokens[t].reason # ReasonTimeout
                                /\ tokens'[t].reason = ReasonTimeout]_vars
    /\ [](currentTask # NoTask => tokens[currentTask.id].cancel = "cancelTask")
    /\ []((currentTask = NoTask /\ (queue # <<>> \/ waiters # <<>>))
            => scheduled > 0)

\* the body of task 1 threw and the error handler threw: no task is
\* current and a run-loop entry is pending for task 2
C18_Witness ==
    /\ HandlerThrew(EvError) /\ Threw(1)
    /\ currentTask = NoTask
    /\ Ids(queue) = {2} /\ scheduled > 0

\* how many times the latest step invoked the registration cb of evt
TimesInvoked(evt, cb) ==
    Cardinality({i \in DOMAIN handled : handled[i] = <<evt, cb>>})

\* C19: a closure that once() registered is invoked at most once: by the
\* first emission of its event that follows, which invokes it once and
\* leaves it unregistered.
C19_OnceAtMostOnce ==
    [][\A e \in Events, fn \in Handlers, k \in 1..MaxHandlers :
         LET cb == Registration(fn, k)
         IN /\ TimesInvoked(e, cb)' <= 1
            /\ TimesInvoked(e, cb)' = 1 => cb \in Range(events[e])
            /\ (cb \in Range(events[e]) /\ Emitted(e)')
               => (TimesInvoked(e, cb)' = 1 /\ cb \notin Range(events'[e]))]_vars

\* C20: cancel() emits drained once when a task is current or entries are
\* queued, and does not emit it otherwise; the promise it returns is
\* resolved.
C20_CancelDrainedOnce ==
    [][op' = "cancel" =>
         /\ TimesEmitted(EvDrained)' =
              (IF currentTask # NoTask \/ queue # <<>> THEN 1 ELSE 0)
         /\ ret' = "resolved"]_vars

\* cancel() was called with a task current and another queued
C20_Witness ==
    /\ op = "cancel" /\ ret = "resolved"
    /\ Cardinality(swept) = 2 /\ started = <<1>> /\ npushed = 2
    /\ TimesEmitted(EvDrained) = 1

\* whether the queue holds no current task and no queued entry
Empty == currentTask = NoTask /\ queue = <<>>

\* C21: every step that takes the queue from holding a current task or
\* queued entries to holding neither emits drained, also when the entries
\* that were left are cancelled ones that next() skips
C21_DrainedOnEveryEmptying ==
    [][(~Empty /\ Empty') => Emitted(EvDrained)']_vars

\* a step of next() that finds no current task and only cancelled entries
\* in the queue: it removes them and starts no task
SkipsAll ==
    /\ op' = "none"
    /\ currentTask = NoTask
    /\ queue # <<>>
    /\ \A i \in DOMAIN queue : Cancelled(queue[i].id)
    /\ applied' = <<>>

\* C21 as amended: a step that takes the queue from holding a current task
\* or queued entries to holding neither emits drained, unless it is a step
\* of next() that only skips cancelled entries: that step emits nothing
\* and calls the waiters
C21_DrainedUnlessSkipped ==
    [][(~Empty /\ Empty')
       => /\ Emitted(EvDrained)' <=> ~SkipsAll
          /\ SkipsAll => (emitted' = <<>> /\ called' = waiters /\ waiters' = <<>>)]_vars

\* next() has skipped task 1, cancelled by its token while queued, which
\* left the queue empty: a waiter was called and no event was emitted
C21_Witness ==
    /\ op = "none"
    /\ Empty
    /\ npushed = 1
    /\ Cancelled(1)
    /\ started = <<>>
    /\ swept = {}
    /\ called # <<>>
    /\ emitted = <<>>

\* C22: a step that has emitted drained ends with no current task and no
\* queued entry, and no task was current while drained was emitted; drained
\* is emitted at most once in a step and only by a step that starts with a
\* current task or queued entries, so that without a further push it is not
\* emitted again
C22_DrainedOnlyWhenEmpty ==
    /\ [](Emitted(EvDrained) => Empty)
    /\ [](\A i \in DOMAIN emitted : emitted[i][1] = EvDrained => emitted[i][3] = 0)
    /\ [][Emitted(EvDrained)' => (~Empty /\ TimesEmitted(EvDrained)' = 1)]_vars

\* two tasks were pushed, both started and completed without a
\* cancellation, and the step that completed the last one emitted drained
C22_Witness ==
    /\ Emitted(EvDrained)
    /\ started = <<1, 2>>
    /\ swept = {}
    /\ \A t \in {1, 2} : Completed(t) /\ ~Cancelled(t)

\* C23: once the token of task t is cancelled, it stays cancelled with the
\* reason it has, t is not the current task and has no live timer (so that
\* neither cancel() nor a timeout cancels it again), and a further call of
\* its cancel changes nothing of the queue, schedules no run-loop entry,
\* emits no event and calls no waiter
C23_CancelIdempotent ==
    /\ [][\A t \in Tasks :
            Cancelled(t) => (Cancelled(t)' /\ tokens'[t].reason = tokens[t].reason)]_vars
    /\ [](\A t \in Tasks : Cancelled(t) => (currentTask.id # t /\ t \notin timers))
    /\ [][\A t \in Tasks :
            (Cancelled(t) /\ op' = "token.cancel" /\ param' = t)
            => /\ UNCHANGED <<queue, currentTask, isClosed, waiters, scheduled,
                              tokens, timers, promise, events>>
               /\ emitted' = <<>>
               /\ called' = <<>>]_vars

\* the cancel of the token of task 1 was called after the timeout of the
\* queue had cancelled task 1; task 2 is running
C23_Witness ==
    /\ op = "token.cancel"
    /\ param = 1
    /\ Cancelled(1)
    /\ tokens[1].reason = ReasonTimeout
    /\ currentTask.id = 2

\* task t was started and has completed without a cancellation
Finished(t) == Started(t) /\ currentTask.id # t /\ ~Cancelled(t)

\* C24: a call of the cancel of the token of a task that has completed
\* normally or by an error leaves every token as it is (cancelled false,
\* reason unset) and leaves the current task, the queue, the waiters, the
\* scheduled callbacks and the timers unchanged
C24_CancelAfterCompletionNoop ==
    [][\A t \in Tasks :
         (Finished(t) /\ op' = "token.cancel" /\ param' = t)
         => /\ UNCHANGED <<queue, currentTask, waiters, scheduled, tokens, timers>>
            /\ ~Cancelled(t)'
            /\ tokens'[t].reason = NoReason
            /\ emitted' = <<>>
            /\ called' = <<>>]_vars

\* the cancel of the token of task 1 was called after task 1 had completed,
\* while task 2 is queued with a run-loop entry pending and a waiter is
\* registered
C24_Witness ==
    /\ op = "token.cancel"
    /\ param = 1
    /\ Finished(1)
    /\ currentTask = NoTask
    /\ Ids(queue) = {2}
    /\ scheduled > 0
    /\ waiters # <<>>

\* C25: isClosed is false at first, is true after every close, becomes
\* true in a close only, never becomes false again, and a push on a closed
\* queue throws and adds no entry
C25_ClosedMonotonic ==
    /\ ~isClosed
    /\ [][isClosed => isClosed']_vars
    /\ [][op' = "close" => isClosed']_vars
    /\ [][(~isClosed /\ isClosed') => op' = "close"]_vars
    /\ [][(isClosed /\ op' = "push")
           => (ret' = "threw" /\ queue' = queue /\ npushed' = npushed)]_vars

\* a push was refused on a closed queue after task 1 had completed and
\* while task 2 is running
C25_Witness ==
    /\ isClosed
    /\ op = "push"
    /\ ret = "threw"
    /\ Completed(1)
    /\ currentTask.id = 2

\* C26: push returns a promise bound to the new entry, to be settled once
\* when the entry completes: what a push that does not throw returns is a
\* promise
C26_PushReturnsPromise ==
    (op = "push" /\ ret # "threw") => ret = "promise"

\* C27: close(true) on a queue that is closed already cancels as the first
\* close(true) does: it leaves no current task and no queued entry, and the
\* task that was current is cancelled with the reason of cancel()
C27_CloseAgainCancels ==
    [][(isClosed /\ op' = "close" /\ param' = 1)
       => /\ Empty'
          /\ \A t \in Tasks :
               currentTask.id = t
               => (Cancelled(t)' /\ tokens'[t].reason = ReasonCancel)]_vars

\* the registrations the latest step invoked for the event evt, in order
Invoked(evt) ==
    LET calls == SelectSeq(handled,
                           LAMBDA h : h[1] = evt /\ h[2] # ConsoleError)
    IN [i \in DOMAIN calls |-> calls[i][2]]

\* C28: an emission of an event whose handlers are all registered by on()
\* invokes every handler registered for the event, once each and in the
\* order of registration, also when one of them throws
C28_AllHandlersInvoked ==
    [][\A e \in Events :
         (Emitted(e)' /\ \A i \in DOMAIN events[e] : events[e][i].once = 0)
         => Invoked(e)' = events[e]]_vars

\* C29: an emission during which a handler is removed from the list of the
\* event, and in which no handler throws, still invokes every handler that
\* was registered when the emission started, once each
C29_RemovalDuringEmission ==
    [][\A e \in Events :
         (Emitted(e)' /\ ~HandlerThrew(e)' /\ events'[e] # events[e])
         => Invoked(e)' = events[e]]_vars

\* C30: once a task has been completed by cancellation, the settlement of
\* the promise its body returned and the then-callback of that promise
\* leave the current task, the queue, the scheduled run-loop entries, the
\* waiters, the tokens and the timers as they are, emit no drained and
\* call no waiter; and when a body returns or throws after cancelling its
\* own task, the step completes the task once: no task is current, drained
\* is emitted at most once and not while entries are queued, and at most
\* one run-loop entry replaces the one that ran
C30_LateSettlementIgnored ==
    /\ [][\A t \in Tasks :
            (Cancelled(t) /\ promise'[t] # promise[t])
            => /\ UNCHANGED <<queue, currentTask, scheduled, waiters, tokens,
                              timers, isClosed>>
               /\ ~Emitted(EvDrained)'
               /\ called' = <<>>]_vars
    /\ [][\A t \in Tasks :
            (applied' # <<>> /\ applied'[1] = t /\ Cancelled(t)')
            => /\ currentTask' = NoTask
               /\ TimesEmitted(EvDrained)' <= 1
               /\ scheduled' <= scheduled
               /\ queue' # <<>> => ~Emitted(EvDrained)']_vars

\* the promise of task 1, cancelled while it was running, was rejected
\* later and its then-callback has run while task 2 is current and a
\* waiter is registered
C30_Witness ==
    /\ Cancelled(1)
    /\ promise[1] = "none"
    /\ ErrorPayloads = <<1>>
    /\ started = <<1, 2>>
    /\ currentTask.id = 2
    /\ waiters # <<>>
    /\ called = <<>>

\* C31: a run of next() that finds a current task changes nothing: the
\* current task, the queue, the waiters, the tokens, the timers and the
\* pending then-callbacks stay as they are, no run-loop entry is scheduled
\* (the one that ran is used up), no body is started, no event is emitted
\* and no waiter is called
C31_RedundantNextNoop ==
    [][(currentTask # NoTask /\ op' = "none" /\ RunNext)
       => /\ UNCHANGED <<queue, currentTask, isClosed, waiters, tokens,
                         timers, promise, started, npushed, events>>
          /\ scheduled' = scheduled - 1
          /\ applied' = <<>>
          /\ emitted' = <<>>
          /\ called' = <<>>]_vars

\* task 1 is running with its promise pending, task 2 is queued, a waiter
\* is registered and every run-loop entry has run: the last one found
\* task 1 current
C31_Witness ==
    /\ op = "none"
    /\ currentTask.id = 1
    /\ promise[1] = "pending"
    /\ started = <<1>>
    /\ Ids(queue) = {2}
    /\ waiters # <<>>
    /\ scheduled = 0

\* a step in which the then-callback of a promise runs
ThenStep == \E t \in Tasks : promise[t] # "none" /\ promise'[t] = "none"

\* a step in which a timeout timer fires
TimerStep == \E t \in timers : t \notin timers' /\ Emitted(EvTimeout)'

\* C32: a step starts a task body only if it is the scheduler running a
\* pending run-loop entry while no task is current, and it starts one body
\* at most, so that the completion of the task that next() started does
\* not start the next one; a public method, a then-callback and a timer
\* callback start no body
C32_StartedOnlyByScheduler ==
    /\ [][started' # started
           => /\ op' = "none" /\ ~ThenStep /\ ~TimerStep
              /\ currentTask = NoTask
              /\ scheduled > 0
              /\ scheduled' <= scheduled
              /\ Len(started') = Len(started) + 1
              /\ applied' # <<>>
              /\ started' = Append(started, applied'[1])]_vars
    /\ [][(op' # "none" \/ ThenStep \/ TimerStep)
           => (started' = started /\ applied' = <<>>)]_vars

\* task 1 completed in the scheduler step that started it, which left
\* task 2 queued with a run-loop entry pending and no task current
C32_Witness ==
    /\ applied # <<>>
    /\ applied[1] = 1
    /\ Completed(1)
    /\ started = <<1>>
    /\ Ids(queue) = {2}
    /\ currentTask = NoTask
    /\ scheduled > 0

\* C33: the waiters a step calls are waiters that were registered when the
\* step began, each is called once, and none of them is registered when
\* the step ends, so that no later round calls it again; a step that
\* registers a waiter does not call it
C33_WaiterAtMostOnce ==
    [][/\ Range(called') \subseteq Range(waiters)
       /\ \A i, j \in DOMAIN called' : called'[i] = called'[j] => i = j
       /\ Range(called') \cap Range(waiters') = {}
       /\ called' # <<>> => waiters' = <<>>
       /\ \A w \in Range(waiters') \ Range(waiters) : w \notin Range(called')]_vars

\* the completion of task 2 called the two waiters, registered while
\* task 1 and task 2 were running, in the order of their registration
C33_Witness ==
    /\ called = <<1, 2>>
    /\ waiters = <<>>
    /\ started = <<1, 2>>
    /\ Completed(2)
    /\ op = "none"
    /\ Empty

\* C34: cancel() leaves no current task and no queued entry and returns a
\* resolved promise, whether a task was running, entries were queued, both
\* or neither
C34_CancelLeavesEmpty ==
    [][op' = "cancel"
       => /\ Empty'
          /\ ret' = "resolved"
          /\ timers' = {}]_vars

\* cancel() was called while task 1 was running with its promise pending
\* and task 2 was queued
C34_Witness ==
    /\ op = "cancel"
    /\ ret = "resolved"
    /\ Empty
    /\ started = <<1>>
    /\ promise[1] = "pending"
    /\ Cancelled(1)
    /\ swept = {1, 2}

\* C35: a step in which the timer of task t fires ends in the state that
\* cancel(reason) on the token of t, called in the state the step began in,
\* would have ended in (current task, queue, run-loop entries, waiters and
\* the waiters called, timers, pending then-callbacks, cancelled flags),
\* but for the reason, which is the timeout reason, and for the timeout
\* event, which is emitted first and followed by the events of the cancel
C35_TimeoutAsTokenCancel ==
    [][\A t \in Tasks :
         (t \in timers /\ t \notin timers' /\ Emitted(EvTimeout)')
         => \E b \in {tokenCancel(Self, t, ReasonUser)} :
              /\ b.tokens[t].cancelled /\ b.tokens[t].reason = ReasonUser
              /\ currentTask' = b.currentTask
              /\ queue' = b.queue
              /\ scheduled' = b.scheduled
              /\ waiters' = b.waiters
              /\ called' = b.called
              /\ timers' = b.timers
              /\ promise' = b.promise
              /\ isClosed' = b.isClosed
              /\ tokens' = [b.tokens EXCEPT ![t].reason = ReasonTimeout]
              /\ emitted' = <<Emission(Self, EvTimeout, 0)>> \o b.emitted]_vars

\* the timer of task 1 has fired while task 2 was queued: task 1 is
\* cancelled with the timeout reason and a run-loop entry is pending
C35_Witness ==
    /\ emitted # <<>>
    /\ emitted[1][1] = EvTimeout
    /\ Cancelled(1)
    /\ tokens[1].reason = ReasonTimeout
    /\ promise[1] = "pending"
    /\ currentTask = NoTask
    /\ Ids(queue) = {2}
    /\ scheduled > 0

\* whether a timeout arms a timer
Arms(timeout) == timeout \notin {Undef, 0}

\* C36: the entry a push adds has the timeout option of the push when one
\* is given, 0 included, and the timeout of the queue otherwise; a timer
\* becomes live only for the task a step makes current, whose timeout is
\* neither absent nor 0, and a task that is left running with such a
\* timeout has a live timer; a token gets the timeout reason only when the
\* timer of the current task, whose timeout is neither absent nor 0, fires
C36_TimeoutOfTask ==
    /\ [][\A o \in TimeoutOptions :
            (op' = "push" /\ ret' = "token" /\ Push(o))
            => queue'[Len(queue')].timeout = (IF o # Undef THEN o ELSE defaultTimeout)]_vars
    /\ [][\A t \in Tasks :
            (t \notin timers /\ t \in timers')
            => (currentTask'.id = t /\ Arms(currentTask'.timeout)
                /\ applied' # <<>> /\ applied'[1] = t)]_vars
    /\ [][(applied' # <<>> /\ currentTask'.id = applied'[1])
           => (currentTask'.id \in timers' <=> Arms(currentTask'.timeout))]_vars
    /\ [](\A t \in timers : currentTask.id = t /\ Arms(currentTask.timeout))
    /\ [][\A t \in Tasks :
            (tokens[t].reason # ReasonTimeout /\ tokens'[t].reason = ReasonTimeout)
            => (currentTask.id = t /\ Arms(currentTask.timeout) /\ t \in timers)]_vars

\* on a queue whose timeout is some milliseconds, task 1 was pushed with
\* the timeout 0 and is running without a timer, its promise pending, and
\* task 2, pushed without a timeout option, has the timeout of the queue
C36_Witness ==
    /\ defaultTimeout = SomeMs
    /\ currentTask.id = 1
    /\ currentTask.timeout = 0
    /\ promise[1] = "pending"
    /\ timers = {}
    /\ Len(queue) = 1
    /\ queue[1].timeout = SomeMs

\* C37: whenever no task is current and an entry is queued or a waiter is
\* registered, the scheduler holds at least one callback that runs next()
C37_NoLostWakeup ==
    (currentTask = NoTask /\ (queue # <<>> \/ waiters # <<>>)) => scheduled > 0

\* the then-callback of task 1 completed it while task 2 was queued and a
\* waiter registered: no task is current and the one pending run-loop
\* entry is the one that completion scheduled
C37_Witness ==
    /\ op = "none"
    /\ currentTask = NoTask
    /\ started = <<1>>
    /\ Completed(1)
    /\ ~Cancelled(1)
    /\ applied = <<>>
    /\ Ids(queue) = {2}
    /\ waiters # <<>>
    /\ scheduled = 1

\* C38: no task is started twice; the queue holds an entry once, holds
\* neither the current task nor a task that was started, and an entry that
\* has left the queue never enters it again
C38_BodyAtMostOnce ==
    /\ [](\A t \in Tasks : Starts(t) <= 1)
    /\ [](Cardinality(Ids(queue)) = Len(queue))
    /\ [](\A t \in Ids(queue) : ~Started(t) /\ currentTask.id # t)
    /\ [][\A t \in Pushed : t \notin Ids(queue) => t \notin Ids(queue')]_vars

\* task 1 was cancelled by its token while running and its promise was
\* rejected later, and task 2 runs under a timer with a redundant run-loop
\* entry pending
C38_Witness ==
    /\ started = <<1, 2>>
    /\ tokens[1].reason = ReasonUser
    /\ promise[1] = "none"
    /\ ErrorPayloads = <<1>>
    /\ currentTask.id = 2
    /\ 2 \in timers
    /\ scheduled >= 1
====
